---- MODULE Spec2Model ----
(***************************************************************************)
(* Model of the chunked capture pipeline of the live-translation app:      *)
(* the AudioRecorder component (start / pause / resume / stop of a media   *)
(* capture session, one processChunk pipeline per emitted chunk), the      *)
(* three remote stages of services/openai (transcribeAudio,                *)
(* correctTranscript, translateText) and App.handleNewTranscript.          *)
(*                                                                         *)
(* Every action is one event-loop task of the browser: the synchronous     *)
(* code that runs between two suspension points (a click handler, the      *)
(* continuation after an await, a MediaRecorder event).                    *)
(*                                                                         *)
(* Spec composes all actions.  PipelineSpec follows the chunk pipelines of *)
(* one capture session; SessionSpec follows overlapping start attempts up  *)
(* to the first chunk pipeline.                                            *)
(***************************************************************************)
EXTENDS Integers, Sequences, FiniteSets, TLC

\* ------------------------------------------------------------------ bounds
MaxSessions == 2      \* start attempts modelled
MaxChunks == 2        \* non-empty chunks handed to processChunk
MaxFrames == 2        \* animation frames followed per visualizer activation
MaxMsgLen == 2        \* words in the message of a caught exception
MaxRun == 330         \* animation frames of the longest activation followed
MaxClock == 2         \* milliseconds of Date.now() followed

Sessions == 1..MaxSessions
None == 0             \* a null ref / null analyser

\* ------------------------------------------------------------------- texts
\* A text is a sequence of characters; " " is the whitespace character.
EmptyText == << >>
NotCalled == << "-" >>      \* marks "this stage was never given an input"

\* what the remote speech-to-text call can resolve to
Stage1Results == { << >>, << " ", " " >>, << " ", "h" >> }
\* message.content of the correction completion (<< >> is null or "")
Stage2Contents == { << >>, << " " >>, << "H", "." >> }
\* message.content of the translation completion (<< >> is null or "")
Stage3Contents == { << >>, << "S" >> }
\* how a remote call can reject: the message mentions API/401/403 or not
RemoteFailures == { "api", "network" }

RECURSIVE TrimStart(_)
TrimStart(t) ==
    IF t = << >> THEN << >>
    ELSE IF Head(t) = " " THEN TrimStart(Tail(t)) ELSE t

RECURSIVE TrimEnd(_)
TrimEnd(t) ==
    IF t = << >> THEN << >>
    ELSE IF t[Len(t)] = " " THEN TrimEnd(SubSeq(t, 1, Len(t) - 1)) ELSE t

\* String.prototype.trim
Trim(t) == TrimEnd(TrimStart(t))

IsBlankNoTrim(t) == Len(t) = 0

\* the discard test of processChunk:
\*   !transcript || typeof transcript !== 'string' || transcript.trim().length === 0
IsBlank(t) == t = << >> \/ Len(Trim(t)) = 0

\* a || b on strings: the empty string is falsy
OrElse(a, b) == IF a = << >> THEN b ELSE a

\* ------------------------------------------------------------ start errors
\* an exception value: its name and its message as a sequence of words
\* (<< >> is a missing or empty message)
GrantErrors ==
    { [name |-> "NotFoundError",         msg |-> << "requested", "device" >>],
      [name |-> "NotAllowedError",       msg |-> << "permission", "denied" >>],
      [name |-> "PermissionDeniedError", msg |-> << >>],
      [name |-> "NotReadableError",      msg |-> << "could", "not", "start" >>],
      [name |-> "AbortError",            msg |-> << "device", "not found" >>],
      [name |-> "AbortError",            msg |-> << "aborted" >>],
      [name |-> "Error",                 msg |-> << >>] }

\* what the constructors and MediaRecorder.start throw
SetupErrors ==
    { [name |-> "NotSupportedError", msg |-> << "unsupported" >>] }

\* String.prototype.includes, on words
Includes(msg, word) == \E i \in 1..Len(msg) : msg[i] = word

NoException == [name |-> "", msg |-> << >>]     \* nothing caught yet

NoError == [text |-> "null", detail |-> << >>]
ApiKeyError == [text |-> "OpenAI API key is not configured.", detail |-> << >>]
ApiError == [text |-> "OpenAI API error.", detail |-> << >>]

ErrorMessageNoDefault(err) ==
    IF err.name = "NotFoundError" \/ Includes(err.msg, "not found")
    THEN [text |-> "No microphone detected.", detail |-> << >>]
    ELSE IF err.name = "NotAllowedError" \/ err.name = "PermissionDeniedError"
    THEN [text |-> "Microphone access denied.", detail |-> << >>]
    ELSE IF err.name = "NotReadableError"
    THEN [text |-> "Microphone is in use by another application.", detail |-> << >>]
    ELSE IF err.msg # << >>
    THEN [text |-> "Microphone error: ", detail |-> err.msg]
    ELSE NoError

\* the catch block of startRecording
ErrorMessage(err) ==
    IF err.name = "NotFoundError" \/ Includes(err.msg, "not found")
    THEN [text |-> "No microphone detected.", detail |-> << >>]
    ELSE IF err.name = "NotAllowedError" \/ err.name = "PermissionDeniedError"
    THEN [text |-> "Microphone access denied.", detail |-> << >>]
    ELSE IF err.name = "NotReadableError"
    THEN [text |-> "Microphone is in use by another application.", detail |-> << >>]
    ELSE IF err.msg # << >>
    THEN [text |-> "Microphone error: ", detail |-> err.msg]
    ELSE [text |-> "Unable to access microphone.", detail |-> << >>]

\* ------------------------------------------------------------------- state
VARIABLES
    apiKeyMissing,      \* AudioRecorder state, set by the mount effect
    isRecording,        \* AudioRecorder state
    isPaused,           \* AudioRecorder state
    error,              \* AudioRecorder state (NoError is null)
    processingStatus,   \* AudioRecorder state ("null" is null)
    mediaRecorderRef,   \* session whose recorder the ref holds, or None
    streamRef,          \* session whose stream the ref holds, or None
    audioContextRef,    \* session whose audio context the ref holds, or None
    chunksRef,          \* chunk ids pushed by ondataavailable
    analyser,           \* App state: session whose analyser is published
    appIsRecording,     \* App state, set through onRecordingStateChange
    attempt,            \* per start attempt: position of startRecording
    stream,             \* per session: the MediaStream's tracks
    ctx,                \* per session: the AudioContext
    rec,                \* per session: the MediaRecorder's state
    finalData,          \* per session: stop() has queued a last dataavailable
    chunks,             \* one record per processChunk call
    transcripts,        \* App state: the transcript log
    latestCaption,      \* App state: the floating caption ("" is none)
    firedTimers,        \* how many of the 6 s caption timeouts have run
    download,           \* content of the last file saved by downloadTranscript
    caught,             \* the exception startRecording last caught and logged
    vizOn,              \* AudioVisualizer: a frame callback is scheduled
    vizAnalyser,        \* AudioVisualizer: the analyser its draw loop reads
    vizFrames,          \* AudioVisualizer: frames drawn in this activation
    canvas,             \* AudioVisualizer: the drawing surface
    dots,               \* AudioVisualizer: the particles of this activation
    language,           \* App state: the selected source language
    closure,            \* per start attempt: the language its handlers see
    now                 \* Date.now(): the clock, in milliseconds

vars == << apiKeyMissing, isRecording, isPaused, error, processingStatus,
           mediaRecorderRef, streamRef, audioContextRef, chunksRef, analyser,
           appIsRecording, attempt, stream, ctx, rec, finalData, chunks,
           transcripts, latestCaption, firedTimers, download, caught,
           vizOn, vizAnalyser, vizFrames, canvas, dots, language, closure,
           now >>

refs == << mediaRecorderRef, streamRef, audioContextRef, chunksRef >>
caption == << latestCaption, firedTimers >>
viz == << vizOn, vizAnalyser, vizFrames, canvas, dots >>
\* the state of App and of the visualizer it renders
appState == << analyser, appIsRecording, transcripts, caption, download, viz,
              language >>
devices == << stream, ctx, rec, finalData >>

Init ==
    /\ apiKeyMissing \in BOOLEAN
    /\ isRecording = FALSE
    /\ isPaused = FALSE
    /\ error = NoError
    /\ processingStatus = "null"
    /\ mediaRecorderRef = None
    /\ streamRef = None
    /\ audioContextRef = None
    /\ chunksRef = << >>
    /\ analyser = None
    /\ appIsRecording = FALSE
    /\ attempt = [s \in Sessions |-> "unused"]
    /\ stream = [s \in Sessions |-> "none"]
    /\ ctx = [s \in Sessions |-> "none"]
    /\ rec = [s \in Sessions |-> "none"]
    /\ finalData = [s \in Sessions |-> FALSE]
    /\ chunks = << >>
    /\ transcripts = << >>
    /\ latestCaption = EmptyText
    /\ firedTimers = 0
    /\ download = << >>
    /\ caught = NoException
    /\ vizOn = FALSE
    /\ vizAnalyser = None
    /\ vizFrames = 0
    /\ canvas = "blank"
    /\ dots = << >>
    /\ language = "ko"
    /\ closure = [s \in Sessions |-> "none"]
    /\ now = 0

\* ------------------------------------------------------------ remote stages
\* outcome of one remote call: it rejects, or resolves with a content
Outcomes(contents) ==
    { [fail |-> TRUE, content |-> << >>] }
        \cup { [fail |-> FALSE, content |-> x] : x \in contents }

\* outcomes of the speech-to-text call: fail is "no" or the kind of failure
Stage1Outcomes ==
    { [fail |-> "no", content |-> x] : x \in Stage1Results }
        \cup { [fail |-> f, content |-> << >>] : f \in RemoteFailures }

Thrown == << "throw" >>     \* the call did not return: it threw

TranscribeAudioSwallow(r) ==
    IF r.fail # "no" THEN << "?" >> ELSE r.content

\* transcribeAudio: the transcription, or rethrows the failure
TranscribeAudio(r) ==
    IF r.fail # "no" THEN Thrown ELSE r.content

\* catch block of processChunk: the error shown for a failure whose message
\* mentions API, 401 or 403
ChunkError(f, old) == IF f = "api" THEN ApiError ELSE old

CorrectTranscriptNoFallback(transcript, r) ==
    IF r.fail THEN EmptyText ELSE OrElse(r.content, transcript)

\* correctTranscript: the content, or the input when the content is empty
\* or the call throws
CorrectTranscript(transcript, r) ==
    IF r.fail THEN transcript ELSE OrElse(r.content, transcript)

TranslateTextEcho(text, r) ==
    IF r.fail THEN text ELSE OrElse(r.content, EmptyText)

\* translateText: the content, or "" when the content is empty or the call
\* throws
TranslateText(text, r) ==
    IF r.fail THEN EmptyText ELSE OrElse(r.content, EmptyText)

\* the item handleNewTranscript builds, with id: Date.now(); chunk is the
\* pipeline the call came from and recording is App's isRecording at that
\* moment
NewItem(chunk, original, translation) ==
    [id |-> now, chunk |-> chunk, original |-> original,
     translation |-> translation, recording |-> appIsRecording]

\* a log that shows the newest item first
HandleNewTranscriptPrepend(log, chunk, original, translation) ==
    << NewItem(chunk, original, translation) >> \o log

\* a log kept in the order in which the chunks were emitted
RECURSIVE InsertByChunk(_, _)
InsertByChunk(log, item) ==
    IF log = << >> \/ log[Len(log)].chunk < item.chunk
    THEN Append(log, item)
    ELSE Append(InsertByChunk(SubSeq(log, 1, Len(log) - 1), item),
                log[Len(log)])

HandleNewTranscriptOrdered(log, chunk, original, translation) ==
    InsertByChunk(log, NewItem(chunk, original, translation))

\* an append that writes over the newest item
HandleNewTranscriptOverwrite(log, chunk, original, translation) ==
    IF log = << >>
    THEN << NewItem(chunk, original, translation) >>
    ELSE [log EXCEPT ![Len(log)] = NewItem(chunk, original, translation)]

\* handleNewTranscript: setTranscripts(prev => [...prev, newItem])
HandleNewTranscript(log, chunk, original, translation) ==
    Append(log, NewItem(chunk, original, translation))

\* the caption timeout of an item with translation t:
\*   setLatestCaption(prev => prev === translation ? "" : prev)
ClearCaption(shown, t) == IF shown = t THEN EmptyText ELSE shown

\* the AudioVisualizer effect, which React runs when analyser or isRecording
\* has changed: the cleanup of the previous run (cancelAnimationFrame,
\* clearRect), then a new run, which draws its first frame at once
\* Angles are counted in hundredths of a radian, so that a full turn is
\* 628 and Math.PI is 314; Math.random() is one of the Seeds.
numDots == 150
FullTurn == 628
HalfTurn == 314
BinCount == 128       \* analyser.frequencyBinCount with fftSize 256
Seeds == {0, 1}

\* the remainder operator of JavaScript: the result has the sign of a
JsRem(a, n) == IF a >= 0 THEN a % n ELSE 0 - ((0 - a) % n)

\* Math.floor(((angle + Math.PI) / (2 * Math.PI)) * bufferLength)
\*     % bufferLength
BinIndex(angle) == JsRem(((angle + HalfTurn) * BinCount) \div FullTurn, BinCount)

\* the loop that fills dots: angle in [0, 2 pi), baseR in [50, 100), speed
\* in [-0.01, 0.01); bin is the bin the dot was last drawn with
FreshDots(seed) ==
    [i \in 1..numDots |->
        [angle |-> ((i - 1) * 4 + seed) % FullTurn,
         baseR |-> 50 + ((i * 7 + seed) % 50),
         speed |-> ((i + seed + 1) % 3) - 1,
         bin |-> None]]

\* dots.forEach in draw: read the bin of the angle, then move the dot
DrawDots(ds) ==
    [i \in 1..Len(ds) |->
        [ds[i] EXCEPT !.bin = BinIndex(ds[i].angle),
                      !.angle = ds[i].angle + ds[i].speed]]

VizEffectNoCancel ==
    IF analyser' = analyser /\ appIsRecording' = appIsRecording
    THEN UNCHANGED viz
    ELSE IF analyser' # None /\ appIsRecording'
    THEN /\ vizOn' = TRUE
         /\ vizAnalyser' = analyser'
         /\ vizFrames' = 1
         /\ canvas' = "painted"
         /\ \E seed \in Seeds : dots' = DrawDots(FreshDots(seed))
    ELSE /\ canvas' = "blank"
         /\ UNCHANGED << vizOn, vizAnalyser, vizFrames, dots >>

\* an effect that creates the particles once and keeps them
VizEffectKeepDots ==
    IF analyser' = analyser /\ appIsRecording' = appIsRecording
    THEN UNCHANGED viz
    ELSE IF analyser' # None /\ appIsRecording'
    THEN /\ vizOn' = TRUE
         /\ vizAnalyser' = analyser'
         /\ vizFrames' = 1
         /\ canvas' = "painted"
         /\ \E seed \in Seeds :
               dots' = DrawDots(IF dots = << >> THEN FreshDots(seed) ELSE dots)
    ELSE /\ vizOn' = FALSE
         /\ vizAnalyser' = None
         /\ vizFrames' = 0
         /\ canvas' = "blank"
         /\ UNCHANGED dots

VizEffect ==
    IF analyser' = analyser /\ appIsRecording' = appIsRecording
    THEN UNCHANGED viz
    ELSE IF analyser' # None /\ appIsRecording'
    THEN /\ vizOn' = TRUE
         /\ vizAnalyser' = analyser'
         /\ vizFrames' = 1
         /\ canvas' = "painted"
         /\ \E seed \in Seeds : dots' = DrawDots(FreshDots(seed))
    ELSE /\ vizOn' = FALSE
         /\ vizAnalyser' = None
         /\ vizFrames' = 0
         /\ canvas' = "blank"
         /\ dots' = << >>

\* ------------------------------------------------------------------ start
FirstUnused == CHOOSE s \in Sessions :
    attempt[s] = "unused" /\ \A t \in Sessions : attempt[t] = "unused" => s <= t

\* click on "Start Recording" (rendered while !isRecording): startRecording
\* up to its await of getUserMedia
StartRecording ==
    /\ ~isRecording
    /\ \E s \in Sessions : attempt[s] = "unused"
    /\ IF apiKeyMissing
       THEN /\ error' = ApiKeyError
            /\ UNCHANGED << attempt, closure >>
       ELSE /\ error' = NoError
            /\ attempt' = [attempt EXCEPT ![FirstUnused] = "awaiting"]
            /\ closure' = [closure EXCEPT ![FirstUnused] = language]
    /\ UNCHANGED << apiKeyMissing, isRecording, isPaused, processingStatus,
                    refs, appState, devices, chunks, caught >>
    /\ UNCHANGED now

\* getUserMedia rejects: the catch block
StartDenied(s, err) ==
    /\ attempt[s] = "awaiting"
    /\ attempt' = [attempt EXCEPT ![s] = "failed"]
    /\ caught' = err
    /\ error' = ErrorMessage(err)
    /\ UNCHANGED << apiKeyMissing, isRecording, isPaused, processingStatus,
                    refs, appState, devices, chunks >>
    /\ UNCHANGED closure
    /\ UNCHANGED now

\* getUserMedia resolves: the rest of the try block, which runs in one task.
\* failAt is the statement that throws, "ok" when none does.
StartGranted(s, failAt, err) ==
    /\ attempt[s] = "awaiting"
    /\ streamRef' = s
    /\ stream' = [stream EXCEPT ![s] = "live"]
    /\ IF failAt = "context"
       THEN UNCHANGED << audioContextRef, ctx, analyser >>
       ELSE /\ audioContextRef' = s
            /\ ctx' = [ctx EXCEPT ![s] = "running"]
            /\ analyser' = s
    /\ IF failAt \in {"context", "recorder"}
       THEN UNCHANGED << mediaRecorderRef, chunksRef >>
       ELSE /\ mediaRecorderRef' = s
            /\ chunksRef' = << >>
    /\ rec' = [rec EXCEPT ![s] =
                 CASE failAt = "ok" -> "recording"
                   [] failAt = "start" -> "inactive"
                   [] OTHER -> "none"]
    /\ IF failAt = "ok"
       THEN /\ isRecording' = TRUE
            /\ appIsRecording' = TRUE
            /\ isPaused' = FALSE
            /\ attempt' = [attempt EXCEPT ![s] = "started"]
            /\ UNCHANGED << error, caught >>
       ELSE /\ attempt' = [attempt EXCEPT ![s] = "failed"]
            /\ caught' = err
            /\ error' = ErrorMessage(err)
            /\ UNCHANGED << isRecording, appIsRecording, isPaused >>
    /\ VizEffect
    /\ UNCHANGED << apiKeyMissing, processingStatus, finalData, chunks,
                    transcripts, caption, download >>
    /\ UNCHANGED << language, closure >>
    /\ UNCHANGED now

\* ------------------------------------------------------------ processChunk
\* a pipeline that reads the language selected when the chunk arrives
NewChunkLiveLanguage(s) ==
    [session |-> s, pc |-> "stage1", hung |-> FALSE, recState |-> rec[s],
     hint |-> language, selected |-> language, size |-> 1,
     s1 |-> "pending", transcript |-> NotCalled,
     s2 |-> "none", s2arg |-> NotCalled, content2 |-> NotCalled,
     corrected |-> NotCalled,
     s3 |-> "none", s3arg |-> NotCalled, content3 |-> NotCalled,
     translation |-> NotCalled]

\* (size is 1 for any blob that is not empty;
\* recState notes the state of the recorder when the chunk was handed over,
\* selected the language selected in App at that moment; hint is the
\* language passed to transcribeAudio, read from the closure of the
\* startRecording call that installed the handler)
NewChunk(s) ==
    [session |-> s, pc |-> "stage1", hung |-> FALSE, recState |-> rec[s],
     hint |-> closure[s], selected |-> language, size |-> 1,
     s1 |-> "pending", transcript |-> NotCalled,
     s2 |-> "none", s2arg |-> NotCalled, content2 |-> NotCalled,
     corrected |-> NotCalled,
     s3 |-> "none", s3arg |-> NotCalled, content3 |-> NotCalled,
     translation |-> NotCalled]

\* ondataavailable with event.data.size > 0, and processChunk up to its
\* await of transcribeAudio
Submit(s) ==
    /\ chunksRef' = Append(chunksRef, Len(chunks) + 1)
    /\ chunks' = Append(chunks, NewChunk(s))
    /\ processingStatus' = "Transcribing..."

CanEmitAnyTime(s) == rec[s] \in {"none", "inactive", "recording"}

\* a recorder that waits for the pipelines in flight
CanEmitWhenIdle(s) ==
    /\ rec[s] = "recording"
    /\ \A c \in 1..Len(chunks) :
          chunks[c].pc \notin {"stage1", "stage2", "stage3"}

\* the recorder slices a chunk only while it is recording
CanEmit(s) == rec[s] = "recording"

\* a timeslice of the recorder of session s elapses with data
DataAvailable(s) ==
    /\ CanEmit(s)
    /\ Len(chunks) < MaxChunks
    /\ Submit(s)
    /\ UNCHANGED << apiKeyMissing, isRecording, isPaused, error,
                    mediaRecorderRef, streamRef, audioContextRef,
                    appState, attempt, devices, caught >>
    /\ UNCHANGED closure
    /\ UNCHANGED now

\* a handler without the test of event.data.size
FinalDataAvailableAnySize(s, size) ==
    /\ finalData[s]
    /\ finalData' = [finalData EXCEPT ![s] = FALSE]
    /\ Len(chunks) < MaxChunks
    /\ chunksRef' = Append(chunksRef, Len(chunks) + 1)
    /\ chunks' = Append(chunks, [NewChunk(s) EXCEPT !.size = size])
    /\ processingStatus' = "Transcribing..."
    /\ UNCHANGED << apiKeyMissing, isRecording, isPaused, error,
                    mediaRecorderRef, streamRef, audioContextRef,
                    appState, attempt, stream, ctx, rec, caught >>
    /\ UNCHANGED closure
    /\ UNCHANGED now

\* the dataavailable event that MediaRecorder.stop() queues; its blob holds
\* what was gathered since the last slice and may be empty
FinalDataAvailable(s, size) ==
    /\ finalData[s]
    /\ finalData' = [finalData EXCEPT ![s] = FALSE]
    /\ IF size > 0
       THEN /\ Len(chunks) < MaxChunks
            /\ Submit(s)
       ELSE UNCHANGED << chunksRef, chunks, processingStatus >>
    /\ UNCHANGED << apiKeyMissing, isRecording, isPaused, error,
                    mediaRecorderRef, streamRef, audioContextRef,
                    appState, attempt, stream, ctx, rec, caught >>
    /\ UNCHANGED closure
    /\ UNCHANGED now

\* transcribeAudio settles with outcome r of its remote call: processChunk
\* discards a blank transcript, goes on to the correction, or (on a throw)
\* runs its catch block
Stage1Done(c, r) ==
    /\ c \in 1..Len(chunks)
    /\ chunks[c].pc = "stage1"
    /\ ~chunks[c].hung
    /\ LET t == TranscribeAudio(r)
           s1 == IF r.fail = "no" THEN "ok" ELSE "fail"
       IN IF t = Thrown
          THEN /\ chunks' = [chunks EXCEPT ![c].pc = "abandoned",
                                           ![c].s1 = s1]
               /\ processingStatus' = "null"
               /\ error' = ChunkError(r.fail, error)
          ELSE IF IsBlank(t)
          THEN /\ chunks' = [chunks EXCEPT ![c].pc = "discarded",
                                           ![c].s1 = s1,
                                           ![c].transcript = t]
               /\ processingStatus' = "null"
               /\ UNCHANGED error
          ELSE /\ chunks' = [chunks EXCEPT ![c].pc = "stage2",
                                           ![c].s1 = s1,
                                           ![c].transcript = t,
                                           ![c].s2 = "pending",
                                           ![c].s2arg = t]
               /\ processingStatus' = "Correcting..."
               /\ UNCHANGED error
    /\ UNCHANGED << apiKeyMissing, isRecording, isPaused, refs,
                    appState, attempt, devices, caught >>
    /\ UNCHANGED closure
    /\ UNCHANGED now

\* correctTranscript settles with outcome r of its remote call
Stage2Done(c, r) ==
    /\ c \in 1..Len(chunks)
    /\ chunks[c].pc = "stage2"
    /\ ~chunks[c].hung
    /\ LET corrected == CorrectTranscript(chunks[c].transcript, r)
       IN chunks' = [chunks EXCEPT ![c].pc = "stage3",
                                   ![c].s2 = IF r.fail THEN "fail" ELSE "ok",
                                   ![c].content2 =
                                       IF r.fail THEN NotCalled ELSE r.content,
                                   ![c].corrected = corrected,
                                   ![c].s3 = "pending",
                                   ![c].s3arg = corrected]
    /\ processingStatus' = "Translating..."
    /\ UNCHANGED << apiKeyMissing, isRecording, isPaused, error, refs,
                    appState, attempt, devices, caught >>
    /\ UNCHANGED closure
    /\ UNCHANGED now

ResultOriginalRaw(ch) == ch.transcript

\* first argument of onNewTranscript
ResultOriginal(ch) == ch.corrected

\* translateText settles with outcome r of its remote call; processChunk
\* publishes the result
Stage3Done(c, r) ==
    /\ c \in 1..Len(chunks)
    /\ chunks[c].pc = "stage3"
    /\ ~chunks[c].hung
    /\ LET translation == TranslateText(chunks[c].corrected, r)
       IN /\ chunks' = [chunks EXCEPT ![c].pc = "done",
                                      ![c].s3 = IF r.fail THEN "fail" ELSE "ok",
                                      ![c].content3 =
                                          IF r.fail THEN NotCalled ELSE r.content,
                                      ![c].translation = translation]
          /\ transcripts' = HandleNewTranscript(transcripts, c,
                                ResultOriginal(chunks[c]), translation)
          /\ latestCaption' = translation
    /\ processingStatus' = "null"
    /\ UNCHANGED << apiKeyMissing, isRecording, isPaused, error, refs,
                    analyser, appIsRecording, attempt, devices, firedTimers,
                    download, caught, viz >>
    /\ UNCHANGED << language, closure >>
    /\ UNCHANGED now

\* ----------------------------------------------------------- stop / pause
StopTracksKeepDevice(st, s) == st

\* streamRef.current.getTracks().forEach(track => track.stop())
StopTracks(st, s) == IF s = None THEN st ELSE [st EXCEPT ![s] = "ended"]

\* audioContextRef.current.close()
CloseContext(cx, s) == IF s = None THEN cx ELSE [cx EXCEPT ![s] = "closed"]

\* a stop that also drops the pipelines in flight
StopRecordingCancelling ==
    /\ isRecording
    /\ mediaRecorderRef # None
    /\ rec' = [rec EXCEPT ![mediaRecorderRef] = "inactive"]
    /\ finalData' = [finalData EXCEPT ![mediaRecorderRef] =
                       rec[mediaRecorderRef] \in {"recording", "paused"}]
    /\ stream' = StopTracks(stream, streamRef)
    /\ ctx' = CloseContext(ctx, audioContextRef)
    /\ analyser' = None
    /\ isRecording' = FALSE
    /\ appIsRecording' = FALSE
    /\ isPaused' = FALSE
    /\ VizEffect
    /\ chunks' = [c \in 1..Len(chunks) |->
                    IF chunks[c].pc \in {"stage1", "stage2", "stage3"}
                    THEN [chunks[c] EXCEPT !.pc = "abandoned"]
                    ELSE chunks[c]]
    /\ UNCHANGED << apiKeyMissing, error, processingStatus, refs, attempt,
                    transcripts, caption, download, caught >>
    /\ UNCHANGED << language, closure >>
    /\ UNCHANGED now

\* click on "Stop" (rendered while isRecording): stopRecording
StopRecording ==
    /\ isRecording
    /\ mediaRecorderRef # None
    /\ rec' = [rec EXCEPT ![mediaRecorderRef] = "inactive"]
    /\ finalData' = [finalData EXCEPT ![mediaRecorderRef] =
                       rec[mediaRecorderRef] \in {"recording", "paused"}]
    /\ stream' = StopTracks(stream, streamRef)
    /\ ctx' = CloseContext(ctx, audioContextRef)
    /\ analyser' = None
    /\ isRecording' = FALSE
    /\ appIsRecording' = FALSE
    /\ isPaused' = FALSE
    /\ VizEffect
    /\ UNCHANGED << apiKeyMissing, error, processingStatus, refs, attempt,
                    chunks, transcripts, caption, download, caught >>
    /\ UNCHANGED << language, closure >>
    /\ UNCHANGED now

\* click on "Pause" / "Resume" (rendered while isRecording): togglePause
\* (pause() and resume() throw on an inactive recorder, which ends the
\* handler before setIsPaused)
TogglePause ==
    /\ isRecording
    /\ mediaRecorderRef # None
    /\ rec[mediaRecorderRef] # "inactive"
    /\ IF isPaused
       THEN /\ rec' = [rec EXCEPT ![mediaRecorderRef] =
                         IF @ = "paused" THEN "recording" ELSE @]
            /\ isPaused' = FALSE
       ELSE /\ rec' = [rec EXCEPT ![mediaRecorderRef] =
                         IF @ = "recording" THEN "paused" ELSE @]
            /\ isPaused' = TRUE
    /\ UNCHANGED << apiKeyMissing, isRecording, error, processingStatus,
                    refs, appState, attempt, stream, ctx, finalData, chunks,
                    caught >>
    /\ UNCHANGED closure
    /\ UNCHANGED now

\* click on the error toast's close button: dismissError
DismissError ==
    /\ error # NoError
    /\ error' = NoError
    /\ UNCHANGED << apiKeyMissing, isRecording, isPaused, processingStatus,
                    refs, appState, attempt, devices, chunks, caught >>
    /\ UNCHANGED closure
    /\ UNCHANGED now

\* ------------------------------------------------ caption, save, visualizer
recorder == << apiKeyMissing, isRecording, isPaused, error, processingStatus,
               refs, attempt, devices, chunks, caught, closure >>

\* the caption timeouts all wait 6000 ms, so they run in the order in which
\* their items were appended: the next one belongs to item firedTimers + 1
CaptionTimeout ==
    /\ firedTimers < Len(transcripts)
    /\ latestCaption' =
          ClearCaption(latestCaption, transcripts[firedTimers + 1].translation)
    /\ firedTimers' = firedTimers + 1
    /\ UNCHANGED << recorder, analyser, appIsRecording, transcripts,
                    download, viz >>
    /\ UNCHANGED language
    /\ UNCHANGED now

\* what downloadTranscript writes for one item, and for the log
FileEntry(item) == << "Original: ", item.original,
                      "Translation: ", item.translation >>
FileContent(log) == [i \in 1..Len(log) |-> FileEntry(log[i])]

\* click on "Save" (disabled while the log is empty): downloadTranscript
DownloadTranscript ==
    /\ Len(transcripts) # 0
    /\ download' = FileContent(transcripts)
    /\ UNCHANGED << recorder, analyser, appIsRecording, transcripts,
                    caption, viz >>
    /\ UNCHANGED language
    /\ UNCHANGED now

\* the scheduled frame callback runs: draw() reschedules itself and repaints
DrawFrame ==
    /\ vizOn
    /\ vizFrames < MaxRun
    /\ vizFrames' = vizFrames + 1
    /\ canvas' = "painted"
    /\ dots' = DrawDots(dots)
    /\ UNCHANGED << recorder, analyser, appIsRecording, transcripts,
                    caption, download, vizOn, vizAnalyser >>
    /\ UNCHANGED language
    /\ UNCHANGED now

Languages == { "ko", "en", "id", "fr", "zh" }

\* a choice in the LanguageSelector: setLanguage
ChangeLanguage(l) ==
    /\ l # language
    /\ language' = l
    /\ UNCHANGED << recorder, analyser, appIsRecording, transcripts,
                    caption, download, viz >>
    /\ UNCHANGED now

\* a millisecond passes
Tick ==
    /\ now < MaxClock
    /\ now' = now + 1
    /\ UNCHANGED << recorder, appState >>

\* a remote call of pipeline c never settles (no timeout is set on the calls)
RemoteHangs(c) ==
    /\ c \in 1..Len(chunks)
    /\ chunks[c].pc \in {"stage1", "stage2", "stage3"}
    /\ ~chunks[c].hung
    /\ chunks' = [chunks EXCEPT ![c].hung = TRUE]
    /\ UNCHANGED << apiKeyMissing, isRecording, isPaused, error,
                    processingStatus, refs, attempt, devices, caught,
                    appState >>
    /\ UNCHANGED closure
    /\ UNCHANGED now

Next ==
    \/ StartRecording
    \/ \E s \in Sessions, err \in GrantErrors : StartDenied(s, err)
    \/ \E s \in Sessions, failAt \in {"ok", "context", "recorder", "start"},
          err \in SetupErrors : StartGranted(s, failAt, err)
    \/ \E s \in Sessions : DataAvailable(s)
    \/ \E s \in Sessions, size \in {0, 1} : FinalDataAvailable(s, size)
    \/ \E c \in 1..MaxChunks, r \in Stage1Outcomes : Stage1Done(c, r)
    \/ \E c \in 1..MaxChunks, r \in Outcomes(Stage2Contents) : Stage2Done(c, r)
    \/ \E c \in 1..MaxChunks, r \in Outcomes(Stage3Contents) : Stage3Done(c, r)
    \/ \E c \in 1..MaxChunks : RemoteHangs(c)
    \/ StopRecording
    \/ TogglePause
    \/ DismissError
    \/ CaptionTimeout
    \/ DownloadTranscript
    \/ DrawFrame
    \/ \E l \in Languages : ChangeLanguage(l)
    \/ Tick

Spec == Init /\ [][Next]_vars

\* --------------------------------------------------- one capture session
\* The pipelines of a single capture session: the user starts once, and the
\* session emits up to MaxChunks chunks whose pipelines run concurrently.
StartFirst ==
    /\ \A s \in Sessions : attempt[s] = "unused"
    /\ StartRecording

PipelineNext ==
    \/ StartFirst
    \/ \E s \in Sessions, err \in GrantErrors : StartDenied(s, err)
    \/ \E s \in Sessions, failAt \in {"ok", "context", "recorder", "start"},
          err \in SetupErrors : StartGranted(s, failAt, err)
    \/ \E s \in Sessions : DataAvailable(s)
    \/ \E s \in Sessions, size \in {0, 1} : FinalDataAvailable(s, size)
    \/ \E c \in 1..MaxChunks, r \in Stage1Outcomes : Stage1Done(c, r)
    \/ \E c \in 1..MaxChunks, r \in Outcomes(Stage2Contents) : Stage2Done(c, r)
    \/ \E c \in 1..MaxChunks, r \in Outcomes(Stage3Contents) : Stage3Done(c, r)
    \/ StopRecording
    \/ TogglePause
    \/ DismissError

PipelineSpec == Init /\ [][PipelineNext]_vars

\* ------------------------------------------------ overlapping sessions
\* Up to MaxSessions start attempts, which may overlap (the start button
\* stays rendered until a grant has succeeded), followed up to the first
\* chunk pipeline.
FirstDataAvailable(s) ==
    /\ chunks = << >>
    /\ DataAvailable(s)

FirstFinalDataAvailable(s, size) ==
    /\ size > 0 => chunks = << >>
    /\ FinalDataAvailable(s, size)

SessionNext ==
    \/ StartRecording
    \/ \E s \in Sessions, err \in GrantErrors : StartDenied(s, err)
    \/ \E s \in Sessions, failAt \in {"ok", "context", "recorder", "start"},
          err \in SetupErrors : StartGranted(s, failAt, err)
    \/ \E s \in Sessions : FirstDataAvailable(s)
    \/ \E s \in Sessions, size \in {0, 1} : FirstFinalDataAvailable(s, size)
    \/ \E c \in 1..MaxChunks, r \in Stage1Outcomes : Stage1Done(c, r)
    \/ \E c \in 1..MaxChunks, r \in Outcomes(Stage2Contents) : Stage2Done(c, r)
    \/ \E c \in 1..MaxChunks, r \in Outcomes(Stage3Contents) : Stage3Done(c, r)
    \/ StopRecording
    \/ TogglePause
    \/ DismissError

SessionSpec == Init /\ [][SessionNext]_vars

\* ------------------------------------------------ the log of one session
\* One session whose remote calls either fail or return speech, together
\* with the caption timeouts and the "Save" button.
HeardOutcomes ==
    { r \in Stage1Outcomes : /\ r.fail \in {"no", "network"}
                             /\ r.fail = "no" => ~IsBlank(r.content) }

CorrectedOutcomes ==
    { r \in Outcomes(Stage2Contents) : r.fail \/ ~IsBlank(r.content) }

LogNext ==
    \/ StartFirst
    \/ \E s \in Sessions : StartGranted(s, "ok", NoException)
    \/ \E s \in Sessions : DataAvailable(s)
    \/ \E s \in Sessions, size \in {0, 1} : FinalDataAvailable(s, size)
    \/ \E c \in 1..MaxChunks, r \in HeardOutcomes : Stage1Done(c, r)
    \/ \E c \in 1..MaxChunks, r \in CorrectedOutcomes : Stage2Done(c, r)
    \/ \E c \in 1..MaxChunks, r \in Outcomes(Stage3Contents) : Stage3Done(c, r)
    \/ StopRecording
    \/ TogglePause
    \/ CaptionTimeout
    \/ DownloadTranscript

LogSpec == Init /\ [][LogNext]_vars

\* ------------------------------------------------ remote calls that hang
\* One session whose remote calls fail, return speech or never settle.
HangNext ==
    \/ StartFirst
    \/ \E s \in Sessions : StartGranted(s, "ok", NoException)
    \/ \E s \in Sessions : DataAvailable(s)
    \/ \E s \in Sessions, size \in {0, 1} : FinalDataAvailable(s, size)
    \/ \E c \in 1..MaxChunks, r \in HeardOutcomes : Stage1Done(c, r)
    \/ \E c \in 1..MaxChunks, r \in CorrectedOutcomes : Stage2Done(c, r)
    \/ \E c \in 1..MaxChunks, r \in Outcomes(Stage3Contents) : Stage3Done(c, r)
    \/ \E c \in 1..MaxChunks : RemoteHangs(c)
    \/ StopRecording
    \/ TogglePause

HangSpec == Init /\ [][HangNext]_vars

\* ------------------------------------------------ the language hint
\* One session, its chunks and the language selector.
LanguageNext ==
    \/ StartFirst
    \/ \E s \in Sessions : StartGranted(s, "ok", NoException)
    \/ \E s \in Sessions : DataAvailable(s)
    \/ StopRecording
    \/ TogglePause
    \/ \E l \in Languages : ChangeLanguage(l)

LanguageSpec == Init /\ [][LanguageNext]_vars

\* ------------------------------------------------ remote calls that return
\* One session whose every remote call returns in the end, with a result or
\* a failure: each pipeline in flight takes its next step eventually.
ReturnNext ==
    \/ StartFirst
    \/ \E s \in Sessions : StartGranted(s, "ok", NoException)
    \/ \E s \in Sessions : DataAvailable(s)
    \/ \E c \in 1..MaxChunks, r \in Stage1Outcomes : Stage1Done(c, r)
    \/ \E c \in 1..MaxChunks, r \in Outcomes(Stage2Contents) : Stage2Done(c, r)
    \/ \E c \in 1..MaxChunks, r \in Outcomes(Stage3Contents) : Stage3Done(c, r)

ReturnFairness ==
    \A c \in 1..MaxChunks :
        WF_vars(\/ \E r \in Stage1Outcomes : Stage1Done(c, r)
                \/ \E r \in Outcomes(Stage2Contents) : Stage2Done(c, r)
                \/ \E r \in Outcomes(Stage3Contents) : Stage3Done(c, r))

ReturnSpec == Init /\ [][ReturnNext]_vars /\ ReturnFairness

\* ------------------------------------------------ the ids of the items
\* One session whose remote calls fail or return speech, and the clock.
ClockNext ==
    \/ StartFirst
    \/ \E s \in Sessions : StartGranted(s, "ok", NoException)
    \/ \E s \in Sessions : DataAvailable(s)
    \/ \E c \in 1..MaxChunks, r \in HeardOutcomes : Stage1Done(c, r)
    \/ \E c \in 1..MaxChunks, r \in CorrectedOutcomes : Stage2Done(c, r)
    \/ \E c \in 1..MaxChunks, r \in Outcomes(Stage3Contents) : Stage3Done(c, r)
    \/ Tick

ClockSpec == Init /\ [][ClockNext]_vars

\* ------------------------------------------------ failed starts
\* Start attempts that fail, over every shape of exception: a name (or
\* none) and a message of up to MaxMsgLen words.
ErrorNames ==
    { "NotFoundError", "NotAllowedError", "PermissionDeniedError",
      "NotReadableError", "AbortError", "" }

Words == { "not found", "Not found", "device" }

RECURSIVE MessagesOfLen(_)
MessagesOfLen(n) ==
    IF n = 0 THEN { << >> }
    ELSE { Append(m, w) : m \in MessagesOfLen(n - 1), w \in Words }

Messages == UNION { MessagesOfLen(n) : n \in 0..MaxMsgLen }

ErrorShapes == { [name |-> n, msg |-> m] : n \in ErrorNames, m \in Messages }

ClassifyNext ==
    \/ StartRecording
    \/ \E s \in Sessions, err \in ErrorShapes : StartDenied(s, err)
    \/ \E s \in Sessions, failAt \in {"context", "recorder", "start"},
          err \in SetupErrors : StartGranted(s, failAt, err)
    \/ DismissError

ClassifySpec == Init /\ [][ClassifyNext]_vars

\* ------------------------------------------------ the visualizer
\* The sessions without their pipelines, and the frames of the visualizer.
FirstFrames ==
    /\ vizFrames < MaxFrames
    /\ DrawFrame

VisualizerNext ==
    \/ StartRecording
    \/ \E s \in Sessions, failAt \in {"ok", "context", "recorder", "start"},
          err \in SetupErrors : StartGranted(s, failAt, err)
    \/ StopRecording
    \/ TogglePause
    \/ FirstFrames

VisualizerSpec == Init /\ [][VisualizerNext]_vars

\* ------------------------------------------------ a long activation
\* One session, and its visualizer followed for MaxRun frames.
RunNext ==
    \/ StartFirst
    \/ \E s \in Sessions : StartGranted(s, "ok", NoException)
    \/ StopRecording
    \/ TogglePause
    \/ DrawFrame

RunSpec == Init /\ [][RunNext]_vars

\* ================================================================== claims
ChunkIds == 1..Len(chunks)

\* the items of the transcript log that came from pipeline c
ItemsOf(c) == { i \in 1..Len(transcripts) : transcripts[i].chunk = c }

\* a text that is empty or holds only whitespace
WhitespaceOnly(t) == \A i \in 1..Len(t) : t[i] = " "

\* C1: a chunk whose speech-to-text result is empty or whitespace-only never
\* has the correction or the translation invoked and never gets an item in
\* the transcript log.
C1_BlankTranscriptDiscarded ==
    \A c \in ChunkIds :
        (chunks[c].s1 = "ok" /\ WhitespaceOnly(chunks[c].transcript)) =>
            /\ chunks[c].pc = "discarded"
            /\ chunks[c].s2 = "none" /\ chunks[c].s2arg = NotCalled
            /\ chunks[c].s3 = "none" /\ chunks[c].s3arg = NotCalled
            /\ ItemsOf(c) = {}

C1_Witness ==
    \E c \in ChunkIds :
        /\ chunks[c].s1 = "ok"
        /\ chunks[c].transcript = << " ", " " >>
        /\ chunks[c].pc = "discarded"

\* C2: when the correction call of a chunk fails, the pipeline goes on: the
\* translation is invoked with the uncorrected speech-to-text text, and once
\* the pipeline is done the chunk has its item.
C2_CorrectionFailureFallsBack ==
    \A c \in ChunkIds :
        chunks[c].s2 = "fail" =>
            /\ chunks[c].pc \in {"stage3", "done"}
            /\ chunks[c].s3 # "none"
            /\ chunks[c].s3arg = chunks[c].transcript
            /\ ~WhitespaceOnly(chunks[c].s3arg)
            /\ chunks[c].pc = "done" => ItemsOf(c) # {}

C2_Witness ==
    \E c \in ChunkIds :
        /\ chunks[c].s2 = "fail"
        /\ chunks[c].pc = "done"
        /\ \E i \in ItemsOf(c) : transcripts[i].original = chunks[c].transcript

\* C3: when the translation call of a chunk fails, the chunk still gets its
\* item, with an empty translation and a non-empty original.
C3_TranslationFailureGivesEmpty ==
    \A c \in ChunkIds :
        chunks[c].s3 = "fail" =>
            /\ Cardinality(ItemsOf(c)) = 1
            /\ \A i \in ItemsOf(c) :
                  /\ transcripts[i].translation = EmptyText
                  /\ Len(transcripts[i].original) > 0
                  /\ transcripts[i].original # NotCalled

C3_Witness ==
    \E c \in ChunkIds :
        /\ chunks[c].s3 = "fail"
        /\ \E i \in ItemsOf(c) : transcripts[i].translation = EmptyText

\* the chunk went through all three stages without a failure
AllStagesReturned(c) ==
    /\ chunks[c].pc = "done"
    /\ chunks[c].s1 = "ok" /\ chunks[c].s2 = "ok" /\ chunks[c].s3 = "ok"

\* C4 as stated: with t1, t2, t3 returned by the three stages, the chunk has
\* exactly one item, whose original is t2 and whose translation is t3.
C4_Original ==
    \A c \in ChunkIds :
        AllStagesReturned(c) =>
            /\ Cardinality(ItemsOf(c)) = 1
            /\ \A i \in ItemsOf(c) :
                  /\ transcripts[i].original = chunks[c].content2
                  /\ transcripts[i].translation = chunks[c].content3

\* C4 amended: with t1, t2, t3 returned by the three stages, the chunk has
\* exactly one item, whose translation is t3 and whose original is t2 when
\* t2 is not empty and the speech-to-text text t1 when t2 is empty; a chunk
\* whose pipeline is not done has no item.
C4_ItemIsCorrectedAndTranslated ==
    \A c \in ChunkIds :
        /\ AllStagesReturned(c) =>
            /\ Cardinality(ItemsOf(c)) = 1
            /\ \A i \in ItemsOf(c) :
                  /\ transcripts[i].original =
                        IF chunks[c].content2 = EmptyText
                        THEN chunks[c].transcript ELSE chunks[c].content2
                  /\ transcripts[i].translation = chunks[c].content3
        /\ chunks[c].pc # "done" => ItemsOf(c) = {}

C4_Witness ==
    \E c \in ChunkIds :
        /\ AllStagesReturned(c)
        /\ chunks[c].content2 = << "H", "." >>
        /\ chunks[c].content3 = << "S" >>
        /\ \E i \in ItemsOf(c) : transcripts[i].original = << "H", "." >>

\* C5 as stated: every item of the log belongs to a chunk whose three remote
\* stages all succeeded, and a chunk with a failed stage has no item.
C5_Original ==
    /\ \A i \in 1..Len(transcripts) :
          LET ch == chunks[transcripts[i].chunk]
          IN ch.s1 = "ok" /\ ch.s2 = "ok" /\ ch.s3 = "ok"
    /\ \A c \in ChunkIds :
          "fail" \in {chunks[c].s1, chunks[c].s2, chunks[c].s3} =>
              ItemsOf(c) = {}

\* C5 amended: every item of the log belongs to a chunk whose speech-to-text
\* stage succeeded with a non-blank text and whose correction and
\* translation calls have both settled (succeeded or failed); a chunk whose
\* speech-to-text stage failed has no item.
C5_ItemsNeedStage1 ==
    /\ \A i \in 1..Len(transcripts) :
          /\ transcripts[i].chunk \in ChunkIds
          /\ LET ch == chunks[transcripts[i].chunk]
             IN /\ ch.s1 = "ok"
                /\ ~WhitespaceOnly(ch.transcript)
                /\ ch.s2 \in {"ok", "fail"}
                /\ ch.s3 \in {"ok", "fail"}
    /\ \A c \in ChunkIds : chunks[c].s1 = "fail" => ItemsOf(c) = {}

C5_Witness ==
    /\ \E c \in ChunkIds : chunks[c].s1 = "fail" /\ chunks[c].pc = "abandoned"
    /\ \E c \in ChunkIds :
          /\ ItemsOf(c) # {}
          /\ "fail" \in {chunks[c].s2, chunks[c].s3}

\* the sessions that hold the capture device / have a running recorder
LiveStreams == { s \in Sessions : stream[s] = "live" }
ActiveRecorders == { s \in Sessions : rec[s] \in {"recording", "paused"} }
ChunksOf(s) == { c \in ChunkIds : chunks[c].session = s }

\* C6: a start attempt that fails leaves isRecording (and the paused flag)
\* as they were, false unless another attempt has started a session, sets
\* the error to a non-null message, and that attempt never has a started
\* recorder nor a chunk pipeline.
C6_FailedStartStaysIdle ==
    /\ [](\A s \in Sessions :
            attempt[s] = "failed" =>
                /\ rec[s] \in {"none", "inactive"}
                /\ ~finalData[s]
                /\ ChunksOf(s) = {})
    /\ []((\A s \in Sessions : attempt[s] # "started") =>
            ~isRecording /\ ~appIsRecording)
    /\ [][\A s \in Sessions :
            (attempt[s] = "awaiting" /\ attempt'[s] = "failed") =>
                /\ error' # NoError
                /\ UNCHANGED << isRecording, appIsRecording, isPaused >>
                /\ UNCHANGED << chunks, transcripts >>
                /\ stream'[s] = "none" =>
                      UNCHANGED << refs, analyser, devices >>]_vars

C6_Witness ==
    \E s \in Sessions :
        /\ attempt[s] = "failed"
        /\ stream[s] = "none"
        /\ error = ErrorMessage([name |-> "NotAllowedError",
                                 msg |-> << "permission", "denied" >>])
        /\ ~isRecording

\* C7: a chunk is emitted only by a session whose device grant has succeeded
\* and that has entered Recording before the emission.
C7_NoChunkBeforeRecording ==
    /\ [](\A c \in ChunkIds :
            /\ attempt[chunks[c].session] = "started"
            /\ stream[chunks[c].session] # "none")
    /\ [][Len(chunks') > Len(chunks) =>
            LET s == chunks'[Len(chunks')].session
            IN /\ attempt[s] = "started"
               /\ stream[s] # "none"
               /\ rec[s] # "none"]_vars

C7_Witness ==
    \E c \in ChunkIds :
        /\ chunks[c].pc = "stage1"
        /\ attempt[chunks[c].session] = "started"
        /\ isRecording

\* a pause or a resume has acted on the recorder of s in this step
PauseStep(s) ==
    \/ rec[s] = "recording" /\ rec'[s] = "paused"
    \/ rec[s] = "paused" /\ rec'[s] = "recording"

\* C8: pause and resume leave every media stream, every audio context and
\* the published analyser as they were; a stop while Recording or Paused
\* ends the tracks of the referenced stream, closes the referenced audio
\* context and publishes a null analyser.
C8_PauseKeepsStopReleases ==
    /\ [][\A s \in Sessions :
            PauseStep(s) =>
                /\ UNCHANGED << stream, ctx, analyser >>
                /\ UNCHANGED << streamRef, audioContextRef, mediaRecorderRef >>
                /\ UNCHANGED << isRecording, appIsRecording >>]_vars
    /\ [][(isRecording /\ ~isRecording') =>
            /\ streamRef # None /\ stream'[streamRef] = "ended"
            /\ audioContextRef # None /\ ctx'[audioContextRef] = "closed"
            /\ rec'[mediaRecorderRef] = "inactive"
            /\ analyser' = None]_vars

C8_Witness ==
    \E s, t \in Sessions :
        /\ stream[s] = "ended" /\ ctx[s] = "closed" /\ rec[s] = "inactive"
        /\ rec[t] = "paused" /\ isPaused
        /\ stream[t] = "live" /\ ctx[t] = "running" /\ analyser = t

\* a capture session is active while it has started and holds a live stream
\* and a recorder that has not been stopped
ActiveSessions ==
    { s \in Sessions : attempt[s] = "started" /\ s \in LiveStreams
                          /\ s \in ActiveRecorders }

\* C9: at most one capture session is active: never more than one session
\* with a live media stream and a started recorder.
C9_SingleSession == Cardinality(ActiveSessions) <= 1

\* C10: a failing speech-to-text call abandons its own chunk only: that
\* chunk has no correction, no translation and no item, and the step leaves
\* the session flags, the refs, the recorder, the device and every other
\* pipeline as they were.
C10_Stage1FailureAbandonsChunkOnly ==
    /\ [](\A c \in ChunkIds :
            chunks[c].s1 = "fail" =>
                /\ chunks[c].pc = "abandoned"
                /\ chunks[c].s2 = "none" /\ chunks[c].s2arg = NotCalled
                /\ chunks[c].s3 = "none" /\ chunks[c].s3arg = NotCalled
                /\ ItemsOf(c) = {})
    /\ [][\A c \in ChunkIds :
            (chunks[c].s1 # "fail" /\ chunks'[c].s1 = "fail") =>
                /\ UNCHANGED << isRecording, isPaused, refs, appState,
                                attempt, devices >>
                /\ Len(chunks') = Len(chunks)
                /\ \A d \in ChunkIds : d # c => chunks'[d] = chunks[d]]_vars

C10_Witness ==
    \E c, d \in ChunkIds :
        /\ c < d
        /\ chunks[c].s1 = "fail" /\ chunks[c].pc = "abandoned"
        /\ chunks[d].session = chunks[c].session
        /\ chunks[d].pc = "done" /\ ItemsOf(d) # {}
        /\ rec[chunks[c].session] = "recording"

\* ------------------------------------------------ the transcript log
IsPrefix(a, b) ==
    /\ Len(a) <= Len(b)
    /\ \A i \in 1..Len(a) : b[i] = a[i]

\* C11: the transcript log is append-only: in every step (start, pause,
\* resume, stop, a pipeline completing, a caption timeout, a download) the
\* log before the step is a prefix of the log after it.
C11_AppendOnly == [][IsPrefix(transcripts, transcripts')]_vars

\* two items in the log, a caption timeout has run, the log has been saved
\* and the session has been stopped
C11_Witness ==
    /\ Len(transcripts) >= 2
    /\ firedTimers >= 1
    /\ download # << >>
    /\ \E s \in Sessions : attempt[s] = "started" /\ rec[s] = "inactive"
    /\ ~isRecording

\* ------------------------------------------------ the missing credential
\* C12: a missing API credential does not block recording attempts: with
\* the credential missing, every click on start still requests the
\* microphone (an attempt starts to await the grant).
C12_MissingKeyStillRequestsMicrophone ==
    [][(apiKeyMissing /\ StartRecording) =>
          \E s \in Sessions :
              attempt[s] = "unused" /\ attempt'[s] = "awaiting"]_vars

\* ------------------------------------------------ pause and stop
\* C13: while the session is Paused no chunk is emitted and no pipeline is
\* started, and pause and resume leave the recording flag on.
C13_PausedEmitsNothing ==
    /\ [][(isRecording /\ isPaused) => Len(chunks') = Len(chunks)]_vars
    /\ [][TogglePause => (isRecording /\ isRecording')]_vars

\* session s has been stopped
Stopped(s) == attempt[s] = "started" /\ rec[s] = "inactive"

\* this step hands a chunk of session s to the pipeline
EmitsChunkOf(s) ==
    /\ Len(chunks') = Len(chunks) + 1
    /\ chunks'[Len(chunks')].session = s

\* the chunks of session s handed over after its recorder was stopped
LateChunksOf(s) == { c \in ChunksOf(s) : chunks[c].recState = "inactive" }

\* C14 as stated: once stop() has been performed on a session, no further
\* chunk of that session is handed to the chunk pipeline.
C14_Original ==
    [][\A s \in Sessions : Stopped(s) => ~EmitsChunkOf(s)]_vars

\* C14: once stop() has been performed on a session, at most one further
\* chunk of that session is handed to the pipeline, namely the data that
\* MediaRecorder.stop() flushes; once that event has been delivered no
\* chunk of the session follows.
C14_StopFlushesOnce ==
    /\ [](\A s \in Sessions : Cardinality(LateChunksOf(s)) <= 1)
    /\ [][\A s \in Sessions :
            Stopped(s) =>
                /\ EmitsChunkOf(s) => (finalData[s] /\ ~finalData'[s])
                /\ ~finalData[s] => ~finalData'[s]]_vars

\* a chunk was handed over after the stop, and the flush is behind
C14_Witness ==
    \E s \in Sessions :
        /\ Stopped(s)
        /\ ~finalData[s]
        /\ \E c, d \in ChunksOf(s) :
              /\ c < d
              /\ chunks[c].recState = "recording"
              /\ chunks[d].recState = "inactive"

\* ------------------------------------------------ classified start errors
DeviceMissing(e) == e.name = "NotFoundError" \/ Includes(e.msg, "not found")
PermissionDenied(e) ==
    e.name = "NotAllowedError" \/ e.name = "PermissionDeniedError"
DeviceBusy(e) == e.name = "NotReadableError"

\* C15: a failed start shows exactly one message, chosen from the caught
\* failure, first match winning: device missing (name NotFoundError or a
\* message containing 'not found'), then permission denied, then device
\* busy, then 'Microphone error: <message>' for any other failure with a
\* message, and the generic message otherwise.
C15_FirstMatchWins ==
    [][\A s \in Sessions :
          (attempt[s] = "awaiting" /\ attempt'[s] = "failed") =>
              LET e == caught'
                  shown == error'
              IN  /\ DeviceMissing(e) =>
                        shown = [text |-> "No microphone detected.",
                                 detail |-> << >>]
                  /\ (~DeviceMissing(e) /\ PermissionDenied(e)) =>
                        shown = [text |-> "Microphone access denied.",
                                 detail |-> << >>]
                  /\ (~DeviceMissing(e) /\ ~PermissionDenied(e)
                        /\ DeviceBusy(e)) =>
                        shown = [text |->
                                   "Microphone is in use by another application.",
                                 detail |-> << >>]
                  /\ (~DeviceMissing(e) /\ ~PermissionDenied(e)
                        /\ ~DeviceBusy(e) /\ e.msg # << >>) =>
                        shown = [text |-> "Microphone error: ",
                                 detail |-> e.msg]
                  /\ (~DeviceMissing(e) /\ ~PermissionDenied(e)
                        /\ ~DeviceBusy(e) /\ e.msg = << >>) =>
                        shown = [text |-> "Unable to access microphone.",
                                 detail |-> << >>]]_vars

\* a failure that matches two classes was given the first one, and the
\* session is idle
C15_Witness ==
    /\ caught.name = "NotAllowedError"
    /\ Includes(caught.msg, "not found")
    /\ error.text = "No microphone detected."
    /\ \E s \in Sessions : attempt[s] = "failed"
    /\ ~isRecording

\* ------------------------------------------------ the visualizer's loop
\* C16: the visualizer has a frame callback scheduled only while the
\* analyser is non-null and the flag is on; when the analyser becomes null
\* or the flag turns off the pending callback is cancelled and the surface
\* is cleared, and no frame is drawn until the next activation; pausing and
\* resuming leave the visualizer as it is.
C16_VisualizerFollowsHandleAndFlag ==
    /\ [](vizOn <=> (analyser # None /\ appIsRecording))
    /\ [](vizOn => vizAnalyser = analyser)
    /\ [](~vizOn => (canvas = "blank" /\ vizFrames = 0))
    /\ [][(vizOn /\ (analyser' = None \/ ~appIsRecording')) =>
            (~vizOn' /\ canvas' = "blank")]_vars
    /\ [][(canvas' = "painted" /\ viz' # viz) => vizOn']_vars
    /\ [][(\E s \in Sessions : PauseStep(s)) => UNCHANGED viz]_vars

\* after a session that was stopped, a second one is paused and the
\* visualizer has gone on drawing the second one's analyser
C16_Witness ==
    \E s, t \in Sessions :
        /\ Stopped(s)
        /\ rec[t] = "paused" /\ isPaused
        /\ vizOn /\ vizAnalyser = t /\ vizFrames = MaxFrames

\* ------------------------------------------------ pipelines in flight
InFlight(c) == chunks[c].pc \in {"stage1", "stage2", "stage3"}

\* the remote call that pipeline c awaits settles
StageStep(c) ==
    \/ \E r \in Stage1Outcomes : Stage1Done(c, r)
    \/ \E r \in Outcomes(Stage2Contents) : Stage2Done(c, r)
    \/ \E r \in Outcomes(Stage3Contents) : Stage3Done(c, r)

\* C17: stop and pause do not cancel the pipelines in flight: neither
\* changes any pipeline, and a pipeline in flight can go on to its next
\* stage whatever the state of the session, so that an item can be appended
\* once the recording flag is off.
C17_StopAndPauseLeavePipelines ==
    /\ [][(StopRecording \/ TogglePause) => chunks' = chunks]_vars
    /\ [](\A c \in ChunkIds :
            (InFlight(c) /\ ~chunks[c].hung) => ENABLED StageStep(c))

\* an item of a chunk emitted while recording was appended after the stop
C17_Witness ==
    /\ ~isRecording
    /\ \E i \in 1..Len(transcripts) :
          /\ ~transcripts[i].recording
          /\ chunks[transcripts[i].chunk].recState = "recording"
          /\ Stopped(chunks[transcripts[i].chunk].session)

\* this step appends an item to the end of the log for pipeline c, which
\* completes in it
Completes(c) ==
    /\ chunks[c].pc = "stage3"
    /\ chunks'[c].pc = "done"
    /\ Len(transcripts') = Len(transcripts) + 1
    /\ SubSeq(transcripts', 1, Len(transcripts)) = transcripts
    /\ transcripts'[Len(transcripts')].chunk = c

\* C18: no order is enforced between the completions of the pipelines: a
\* pipeline in flight can take its next step whatever the others have
\* done, and the log grows only by the item of the pipeline that completes,
\* put last, so the log is in completion order and a later chunk's item can
\* come before an earlier chunk's.
C18_LogIsCompletionOrder ==
    /\ [][transcripts' # transcripts =>
            \E c \in ChunkIds : Completes(c)]_vars
    /\ [](\A c, d \in ChunkIds :
            (c < d /\ InFlight(c) /\ InFlight(d)) =>
                (ENABLED StageStep(d) /\ ENABLED StageStep(c)))

\* chunk 1 was emitted before chunk 2 by the same session, and the item of
\* chunk 2 comes first in the log
C18_Witness ==
    /\ Len(transcripts) = 2
    /\ transcripts[1].chunk = 2
    /\ transcripts[2].chunk = 1
    /\ chunks[1].session = chunks[2].session

\* ------------------------------------------------ a call that never returns
Hung(c) == InFlight(c) /\ chunks[c].hung

\* C19: a remote call that never returns stalls its own pipeline only:
\* the hung pipeline stays as it is, while every other pipeline in flight
\* can take its next step, a recording recorder can emit its next chunk,
\* and stop, pause and resume are enabled as they are without the hang and
\* act on the recorder.
C19_HangStallsOneChunk ==
    /\ [][\A c \in ChunkIds : Hung(c) => chunks'[c] = chunks[c]]_vars
    /\ []((\E c \in ChunkIds : Hung(c)) =>
            /\ \A d \in ChunkIds :
                  (InFlight(d) /\ ~chunks[d].hung) => ENABLED StageStep(d)
            /\ \A s \in Sessions :
                  (rec[s] = "recording" /\ Len(chunks) < MaxChunks) =>
                      ENABLED DataAvailable(s)
            /\ (isRecording /\ mediaRecorderRef # None) =>
                  /\ ENABLED (StopRecording /\ ~isRecording'
                                /\ rec'[mediaRecorderRef] = "inactive")
                  /\ rec[mediaRecorderRef] = "recording" =>
                        ENABLED (TogglePause /\ isPaused'
                                  /\ rec'[mediaRecorderRef] = "paused")
                  /\ rec[mediaRecorderRef] = "paused" =>
                        ENABLED (TogglePause /\ ~isPaused'
                                  /\ rec'[mediaRecorderRef] = "recording"))

\* the first chunk hangs; the second, emitted later, has its item in the
\* log, and the session has been stopped since
C19_Witness ==
    \E c, d \in ChunkIds :
        /\ c < d
        /\ Hung(c)
        /\ chunks[d].session = chunks[c].session
        /\ chunks[d].pc = "done" /\ ItemsOf(d) # {}
        /\ Stopped(chunks[c].session)
        /\ ~isRecording

\* ------------------------------------------------ concurrent appends
\* the pipelines that have performed their append
Appended == { c \in ChunkIds : chunks[c].pc = "done" }

\* C20: appending to the log is race-free under every interleaving of the
\* pipelines: every pipeline that has performed its append has exactly one
\* item in the log, every item is of such a pipeline, and the length of
\* the log is the number of pipelines that have performed their append.
C20_OneItemPerAppend ==
    /\ \A c \in ChunkIds :
          Cardinality(ItemsOf(c)) = IF c \in Appended THEN 1 ELSE 0
    /\ \A i \in 1..Len(transcripts) : transcripts[i].chunk \in Appended
    /\ Len(transcripts) = Cardinality(Appended)

\* two pipelines that overlapped (the later chunk's item came first) have
\* both appended and both items are in the log
C20_Witness ==
    \E c, d \in Appended :
        /\ c < d
        /\ \E i \in ItemsOf(d), j \in ItemsOf(c) : i < j
        /\ Len(transcripts) = Cardinality(Appended)

\* ------------------------------------------------ state shared by pipelines
\* this step is one of pipeline c: its emission or the return of one of
\* its remote calls
PipelineStep(c) ==
    \/ c = Len(chunks) + 1 /\ Len(chunks') = c
    \/ c \in ChunkIds /\ chunks'[c] # chunks[c]

\* C21: the pipelines share no mutable state but the log: a step of one
\* pipeline never overwrites or clears the processing status or the error
\* while another pipeline is in flight.
C21_PipelinesShareOnlyTheLog ==
    [][\A c \in 1..MaxChunks :
          (PipelineStep(c) /\ \E d \in ChunkIds : d # c /\ InFlight(d)) =>
              (processingStatus' = processingStatus /\ error' = error)]_vars

\* ------------------------------------------------ ownership of chunks
\* the chunks the recorder component holds a reference to
Retained == { chunksRef[i] : i \in 1..Len(chunksRef) }

\* C22: once a chunk has been handed to the pipeline, the capture session
\* holds no reference to it.
C22_ChunkNotRetained == \A c \in ChunkIds : c \notin Retained

\* ------------------------------------------------ the lifecycle
\* the state the component shows; a stopped component is idle again
SessionState ==
    IF ~isRecording THEN "Idle"
    ELSE IF isPaused THEN "Paused" ELSE "Recording"

\* C23: the session state changes only from Idle to Recording (by a start
\* that succeeds), between Recording and Paused (by pause and resume) and
\* from Recording or Paused to Idle (by stop); the paused flag is on only
\* while the recording flag is on, and a stop leaves the paused flag off.
C23_Lifecycle ==
    /\ [](isPaused => isRecording)
    /\ [][SessionState' # SessionState =>
            \/ /\ SessionState = "Idle" /\ SessionState' = "Recording"
               /\ \E s \in Sessions :
                     attempt[s] = "awaiting" /\ attempt'[s] = "started"
            \/ /\ SessionState = "Recording" /\ SessionState' = "Paused"
               /\ TogglePause
            \/ /\ SessionState = "Paused" /\ SessionState' = "Recording"
               /\ TogglePause
            \/ /\ SessionState \in {"Recording", "Paused"}
               /\ SessionState' = "Idle"
               /\ StopRecording
               /\ ~isPaused']_vars

\* ------------------------------------------------ the particles
\* the effect runs anew in this step: the frame count starts again
Activates == vizOn' /\ vizFrames' = 1 /\ viz' # viz

\* C24: each activation of the visualizer creates a fresh set of 150
\* particles, which keeps that size for the whole activation; nothing of
\* the particles of an earlier activation is carried into it, and the set
\* is discarded on deactivation.
C24_FreshParticles ==
    /\ [](vizOn => Len(dots) = 150)
    /\ [](~vizOn => dots = << >>)
    /\ [][Activates =>
            \E seed \in Seeds : dots' = DrawDots(FreshDots(seed))]_vars
    /\ [][(vizOn /\ vizOn' /\ ~Activates) =>
            \A i \in 1..150 :
                /\ dots'[i].baseR = dots[i].baseR
                /\ dots'[i].speed = dots[i].speed]_vars

\* a second activation, after a session that was stopped, has drawn its
\* first frame with 150 particles
C24_Witness ==
    \E s, t \in Sessions :
        /\ Stopped(s)
        /\ attempt[t] = "started" /\ vizOn /\ vizAnalyser = t
        /\ vizFrames = 1
        /\ Len(dots) = 150

\* C30: on every frame and for every particle, the frequency bin computed
\* from the particle's angle is a valid index, from 0 to binCount - 1.
C30_BinIndexValid ==
    \A i \in 1..Len(dots) : dots[i].bin \in 0..(BinCount - 1)

\* ------------------------------------------------ resources
\* C25: whenever the recording flag is off, no media stream is live and the
\* published analyser is null, also after a start that failed once the
\* device had been granted.
C25_IdleHoldsNoDevice ==
    ~isRecording => (LiveStreams = {} /\ analyser = None)

\* ------------------------------------------------ the language hint
\* C26: the language hint of every chunk of a session is the language that
\* was selected when start was invoked for that session; selecting another
\* language while the session records or is paused changes neither that
\* language nor the hint of any chunk, earlier or later.
C26_HintIsLanguageAtStart ==
    /\ [][\A s \in Sessions :
            (attempt[s] = "unused" /\ attempt'[s] # "unused") =>
                closure'[s] = language]_vars
    /\ [][\A s \in Sessions :
            attempt[s] # "unused" => closure'[s] = closure[s]]_vars
    /\ [](\A c \in ChunkIds : chunks[c].hint = closure[chunks[c].session])

\* a chunk emitted after the selection had changed carries the language of
\* the start, and the session still records
C26_Witness ==
    \E c \in ChunkIds :
        /\ chunks[c].selected # chunks[c].hint
        /\ chunks[c].hint = "ko"
        /\ language # "ko"
        /\ rec[chunks[c].session] = "recording"

\* ------------------------------------------------ items and chunks
NonEmptyChunks == { c \in ChunkIds : chunks[c].size > 0 }

\* C27: every chunk handed to the pipeline is non-empty and has at most
\* one item in the log, so the log never has more items than non-empty
\* chunks were emitted.
C27_ItemsAtMostNonEmptyChunks ==
    /\ \A c \in ChunkIds : chunks[c].size > 0
    /\ \A c \in ChunkIds : Cardinality(ItemsOf(c)) <= 1
    /\ \A i \in 1..Len(transcripts) : transcripts[i].chunk \in NonEmptyChunks
    /\ Len(transcripts) <= Cardinality(NonEmptyChunks)

\* the stop of the session flushed an empty blob, which was not submitted,
\* and the log has fewer items than chunks were emitted
C27_Witness ==
    \E s \in Sessions :
        /\ Stopped(s) /\ ~finalData[s]
        /\ LateChunksOf(s) = {}
        /\ Len(transcripts) >= 1
        /\ Len(transcripts) < Cardinality(NonEmptyChunks)

\* ------------------------------------------------ termination
Final(c) == chunks[c].pc \in {"done", "discarded", "abandoned"}

\* C28: if every remote call returns in the end, every chunk handed to the
\* pipeline reaches a final outcome and stays there, and the outcome is
\* exactly one of: item appended (one item in the log), discarded as blank
\* (no item), abandoned on a failure of stage 1 (no item); every failure of
\* a stage ends in one of these.
C28_EveryPipelineTerminates ==
    /\ \A c \in 1..MaxChunks : (c \in ChunkIds) ~> (c \in ChunkIds /\ Final(c))
    /\ [][\A c \in ChunkIds : Final(c) => chunks'[c] = chunks[c]]_vars
    /\ [](\A c \in ChunkIds :
            /\ Final(c) \/ InFlight(c)
            /\ chunks[c].pc = "done" <=> Cardinality(ItemsOf(c)) = 1
            /\ chunks[c].pc # "done" => ItemsOf(c) = {}
            /\ chunks[c].pc = "abandoned" <=> chunks[c].s1 = "fail"
            /\ chunks[c].pc = "discarded" =>
                  (chunks[c].s1 = "ok" /\ IsBlank(chunks[c].transcript))
            /\ chunks[c].pc = "done" =>
                  (chunks[c].s2 \in {"ok", "fail"}
                     /\ chunks[c].s3 \in {"ok", "fail"}))

\* every chunk has reached its outcome: one was abandoned, and one whose
\* correction and translation both failed has its item
C28_Witness ==
    /\ Len(chunks) = MaxChunks
    /\ \A c \in ChunkIds : Final(c)
    /\ \E c \in ChunkIds : chunks[c].pc = "abandoned"
    /\ \E c \in ChunkIds :
          /\ chunks[c].pc = "done"
          /\ chunks[c].s2 = "fail" /\ chunks[c].s3 = "fail"

\* ------------------------------------------------ the caption
\* C29: the timer of an item clears the caption only if the caption still
\* equals that item's translation, and the timer of an earlier item never
\* clears a caption that a later item has set (the caption on display is
\* that of the newest item).
C29_OnlyOwnTimerClears ==
    [][(firedTimers' = firedTimers + 1 /\ latestCaption' # latestCaption) =>
          /\ latestCaption' = EmptyText
          /\ latestCaption = transcripts[firedTimers + 1].translation
          /\ firedTimers + 1 = Len(transcripts)]_vars

\* ------------------------------------------------ the ids of the items
\* C31: all items of the log have pairwise distinct ids, also when two
\* pipelines append within the same tick of the clock.
C31_DistinctIds ==
    \A i, j \in 1..Len(transcripts) :
        i # j => transcripts[i].id # transcripts[j].id

====
